---- MODULE Spec2Model ----
(***************************************************************************)
(* A model of the to-do list service of src/main.go: the TodoHandler       *)
(* (items map, lastID counter, embedded sync.RWMutex) and its five gin      *)
(* handlers, run by concurrently serving goroutines.  Each handler is a    *)
(* sequence of atomic steps cut at the lock operations and at the          *)
(* statements of the critical sections.                                    *)
(***************************************************************************)
EXTENDS Integers, Sequences, FiniteSets, TLC

\* ------------------------------------------------------------------ bounds
\* Number of goroutines serving requests concurrently.
NumProcs == 2
\* Total number of requests the concurrent specification accepts.
MaxReqs == 4
\* Total number of requests the one-goroutine specification accepts.
SeqMaxReqs == 5

Procs == 1..NumProcs

\* ------------------------------------------------------------------ inputs
\* Item names sent in request bodies.
Names == {"a", "b"}
\* Values of the ":id" path parameter, as the strings the router hands over.
ParamStrs == {<<"1">>, <<"2">>, <<"+", "3">>, <<"x">>}
NoParam == <<>>

\* A request body: malformed JSON, or a JSON object with these fields.
BadBody == [valid |-> FALSE, Name |-> "", IsComplete |-> FALSE]
GoodBodies == [valid : {TRUE}, Name : Names, IsComplete : BOOLEAN]
Bodies == {BadBody} \cup GoodBodies

Requests ==
    [op : {"GetItems"}, param : {NoParam}, body : {BadBody}]
    \cup [op : {"GetItemByID", "DeleteItem"}, param : ParamStrs, body : {BadBody}]
    \cup [op : {"PostItem"}, param : {NoParam}, body : Bodies]
    \cup [op : {"PutItem"}, param : ParamStrs, body : Bodies]

\* The requests the concurrent specification draws from.
ConcRequests ==
    {r \in Requests :
        /\ r.param \in {NoParam, <<"1">>, <<"2">>, <<"x">>}
        /\ r.body.valid =>
            /\ r.body.IsComplete
            /\ r.body.Name = (IF r.op = "PostItem" THEN "a" ELSE "b")}

NoRequest == [op |-> "none", param |-> NoParam, body |-> BadBody]

\* ------------------------------------------------------------------ types
TodoItem(id, name, isComplete) == [Id |-> id, Name |-> name, IsComplete |-> isComplete]
ZeroItem == TodoItem(0, "", FALSE)
PostTodoItem(name) == [Name |-> name]
PutTodoItem(name, isComplete) == [Name |-> name, IsComplete |-> isComplete]
ZeroBound == PutTodoItem("", FALSE)

EmptyMap == [k \in {} |-> ZeroItem]
MapSet(m, k, v) == [x \in DOMAIN m \cup {k} |-> IF x = k THEN v ELSE m[x]]

\* ------------------------------------------------------------------ responses
StatusOK == 200
StatusBadRequest == 400
StatusNotFound == 404

NoResponse == [status |-> 0, kind |-> "none", items |-> <<>>]
\* c.JSON(code, obj) with obj a sequence of items (one item: a sequence of one).
JSON(code, objs) == [status |-> code, kind |-> "json", items |-> objs]
\* c.String(code, text): a plain-text body.
String(code) == [status |-> code, kind |-> "text", items |-> <<>>]
\* A handler that returns without writing anything answers 200 with no body.
Finish(r) == IF r.status = 0 THEN [status |-> StatusOK, kind |-> "empty", items |-> <<>>] ELSE r

\* ------------------------------------------------------------------ strconv.Atoi
Digits == <<"0", "1", "2", "3", "4", "5", "6", "7", "8", "9">>
IsDigit(c) == \E d \in 1..10 : Digits[d] = c
DigitVal(c) == (CHOOSE d \in 1..10 : Digits[d] = c) - 1

RECURSIVE ParseDigits(_, _)
ParseDigits(s, acc) ==
    IF s = <<>> THEN acc
    ELSE ParseDigits(Tail(s), acc * 10 + DigitVal(Head(s)))

AtoiLenient(s) == [err |-> FALSE, val |-> 0]
\* strconv.Atoi: an optional sign followed by one or more decimal digits.
Atoi(s) ==
    LET neg == s # <<>> /\ Head(s) = "-"
        signed == s # <<>> /\ Head(s) \in {"+", "-"}
        ds == IF signed THEN Tail(s) ELSE s
    IN  IF ds = <<>> \/ \E i \in 1..Len(ds) : ~IsDigit(ds[i])
        THEN [err |-> TRUE, val |-> 0]
        ELSE [err |-> FALSE, val |-> IF neg THEN 0 - ParseDigits(ds, 0) ELSE ParseDigits(ds, 0)]

\* ------------------------------------------------------------------ ShouldBindJSON
BindPutLenient(body) == [err |-> FALSE, val |-> PutTodoItem(body.Name, body.IsComplete)]
\* Binding a body to PostTodoItem keeps Name only; to PutTodoItem, both fields.
BindPost(body) == [err |-> ~body.valid, val |-> PostTodoItem(body.Name)]
BindPut(body) == [err |-> ~body.valid, val |-> PutTodoItem(body.Name, body.IsComplete)]

\* ------------------------------------------------------------------ state
VARIABLES
    items,      \* th.items: map[int]TodoItem
    lastID,     \* th.lastID
    writer,     \* the goroutine whose th.Lock() is outstanding, 0 when none
    readers,    \* the goroutines whose th.RLock() is outstanding
    pc,         \* each goroutine's position in the handler it runs
    req,        \* the request each goroutine is serving
    resp,       \* what the handler has written to its gin.Context
    id,         \* the handler's local id
    item,       \* the handler's local item (PutItem)
    bound,      \* the struct ShouldBindJSON filled
    nreq,       \* history: requests accepted so far
    issued,     \* history: the keys PostItem inserted under, in order
    deleted,    \* history: the keys DeleteItem removed
    pre         \* history: items and lastID when the write lock was last taken

vars == <<items, lastID, writer, readers, pc, req, resp, id, item, bound, nreq, issued, deleted, pre>>
store == <<items, lastID>>
rwmutex == <<writer, readers>>
locals == <<id, item, bound>>

\* NewTodoHandler(0), as main constructs it, and idle goroutines.
NewTodoHandler(n) == [items |-> EmptyMap, lastID |-> n]

Init ==
    /\ items = NewTodoHandler(0).items
    /\ lastID = NewTodoHandler(0).lastID
    /\ writer = 0
    /\ readers = {}
    /\ pc = [p \in Procs |-> "idle"]
    /\ req = [p \in Procs |-> NoRequest]
    /\ resp = [p \in Procs |-> NoResponse]
    /\ id = [p \in Procs |-> 0]
    /\ item = [p \in Procs |-> ZeroItem]
    /\ bound = [p \in Procs |-> ZeroBound]
    /\ nreq = 0
    /\ issued = <<>>
    /\ deleted = {}
    /\ pre = [items |-> EmptyMap, lastID |-> 0]

\* ------------------------------------------------------------------ sync.RWMutex
CanLockAlways == TRUE
\* Lock() proceeds when no reader and no writer holds the mutex.
CanLock == writer = 0 /\ readers = {}
CanRLockAlways == TRUE
\* RLock() proceeds when no writer holds the mutex.
CanRLock == writer = 0

Lock(p) ==
    /\ CanLock
    /\ writer' = p
    /\ readers' = readers
    /\ pre' = [items |-> items, lastID |-> lastID]

Unlock(p) ==
    /\ writer' = 0
    /\ readers' = readers

RLock(p) ==
    /\ CanRLock
    /\ readers' = readers \cup {p}
    /\ writer' = writer

RUnlock(p) ==
    /\ readers' = readers \ {p}
    /\ writer' = writer

\* ------------------------------------------------------------------ dispatch
\* The handler's first position, as main registers the routes.
Route(op) ==
    CASE op = "GetItems" -> "GetItems_RLock"
      [] op = "GetItemByID" -> "GetItemByID_Atoi"
      [] op = "PostItem" -> "PostItem_Bind"
      [] op = "PutItem" -> "PutItem_Bind"
      [] op = "DeleteItem" -> "DeleteItem_Atoi"

\* A goroutine takes the next request and enters its handler.
Receive(p, cap, reqs) ==
    /\ pc[p] = "idle"
    /\ nreq < cap
    /\ \E r \in reqs :
        /\ req' = [req EXCEPT ![p] = r]
        /\ pc' = [pc EXCEPT ![p] = Route(r.op)]
    /\ resp' = [resp EXCEPT ![p] = NoResponse]
    /\ nreq' = nreq + 1
    /\ UNCHANGED <<store, rwmutex, locals, issued, deleted, pre>>

\* The handler returns: the request and the locals die, and an unwritten response
\* goes out as 200.
Return(p, r) ==
    /\ pc' = [pc EXCEPT ![p] = "idle"]
    /\ req' = [req EXCEPT ![p] = NoRequest]
    /\ resp' = [resp EXCEPT ![p] = Finish(r)]
    /\ id' = [id EXCEPT ![p] = 0]
    /\ item' = [item EXCEPT ![p] = ZeroItem]
    /\ bound' = [bound EXCEPT ![p] = ZeroBound]

\* The handler moves on to position l of the same request.
Goto(p, l) ==
    /\ pc' = [pc EXCEPT ![p] = l]
    /\ req' = req

\* ------------------------------------------------------------------ sort.Sort
Less(t, i, j) == t[i].Id < t[j].Id
Swap(t, i, j) == [t EXCEPT ![i] = t[j], ![j] = t[i]]

\* The inner loop of an insertion sort: sink element j while it is Less than j-1.
RECURSIVE Sink(_, _)
Sink(t, j) ==
    IF j > 1 /\ Less(t, j, j - 1) THEN Sink(Swap(t, j, j - 1), j - 1) ELSE t

RECURSIVE SortFrom(_, _)
SortFrom(t, i) ==
    IF i > Len(t) THEN t ELSE SortFrom(Sink(t, i), i + 1)

SortNone(t) == t
\* sort.Sort(items): orders the collection by Less, through Len, Less and Swap.
Sort(t) == SortFrom(t, 2)

\* The orders in which "for _, item := range th.items" may visit the map's keys.
RangeOrders(m) ==
    {s \in [1..Cardinality(DOMAIN m) -> DOMAIN m] :
        \A i, j \in DOMAIN s : i # j => s[i] # s[j]}

\* The slice GetItems fills from the map, visiting the keys in order ks.
Collect(m, ks) == [i \in DOMAIN ks |-> m[ks[i]]]

\* ------------------------------------------------------------------ GetItems
GetItems_RLock(p) ==
    /\ pc[p] = "GetItems_RLock"
    /\ RLock(p)
    /\ Goto(p, "GetItems_Body")
    /\ UNCHANGED <<store, resp, locals, nreq, issued, deleted, pre>>

\* Copy the map into a slice, sort it, and write it as JSON (the read lock is held).
GetItems_Body(p) ==
    /\ pc[p] = "GetItems_Body"
    /\ \E ks \in RangeOrders(items) :
        resp' = [resp EXCEPT ![p] = JSON(StatusOK, Sort(Collect(items, ks)))]
    /\ Goto(p, "GetItems_RUnlock")
    /\ UNCHANGED <<store, rwmutex, locals, nreq, issued, deleted, pre>>

GetItems_RUnlock(p) ==
    /\ pc[p] = "GetItems_RUnlock"
    /\ RUnlock(p)
    /\ Return(p, resp[p])
    /\ UNCHANGED <<store, nreq, issued, deleted, pre>>

\* ------------------------------------------------------------------ GetItemByID
GetItemByID_Atoi(p) ==
    /\ pc[p] = "GetItemByID_Atoi"
    /\ LET a == Atoi(req[p].param)
       IN  IF a.err
           THEN /\ Return(p, String(StatusBadRequest))
           ELSE /\ id' = [id EXCEPT ![p] = a.val]
                /\ Goto(p, "GetItemByID_RLock")
                /\ UNCHANGED <<resp, item, bound>>
    /\ UNCHANGED <<store, rwmutex, nreq, issued, deleted, pre>>

GetItemByID_RLock(p) ==
    /\ pc[p] = "GetItemByID_RLock"
    /\ RLock(p)
    /\ Goto(p, "GetItemByID_Lookup")
    /\ UNCHANGED <<store, resp, locals, nreq, issued, deleted, pre>>

GetItemByID_OkAlways(its, i) == TRUE
\* item, ok := th.items[id] in GetItemByID
GetItemByID_Ok(its, i) == i \in DOMAIN its

\* What GetItemByID writes for id i when the map is its.
GetItemByID_Response(its, i) ==
    IF ~GetItemByID_Ok(its, i)
    THEN String(StatusNotFound)
    ELSE JSON(StatusOK, <<its[i]>>)

GetItemByID_Lookup(p) ==
    /\ pc[p] = "GetItemByID_Lookup"
    /\ resp' = [resp EXCEPT ![p] = GetItemByID_Response(items, id[p])]
    /\ Goto(p, "GetItemByID_RUnlock")
    /\ UNCHANGED <<store, rwmutex, locals, nreq, issued, deleted, pre>>

GetItemByID_RUnlock(p) ==
    /\ pc[p] = "GetItemByID_RUnlock"
    /\ RUnlock(p)
    /\ Return(p, resp[p])
    /\ UNCHANGED <<store, nreq, issued, deleted, pre>>

\* ------------------------------------------------------------------ PostItem
PostItem_Bind(p) ==
    /\ pc[p] = "PostItem_Bind"
    /\ LET b == BindPost(req[p].body)
       IN  IF b.err
           THEN /\ Return(p, String(StatusBadRequest))
           ELSE /\ bound' = [bound EXCEPT ![p] = b.val]
                /\ Goto(p, "PostItem_Lock")
                /\ UNCHANGED <<resp, id, item>>
    /\ UNCHANGED <<store, rwmutex, nreq, issued, deleted, pre>>

PostItem_Lock(p) ==
    /\ pc[p] = "PostItem_Lock"
    /\ Lock(p)
    /\ Goto(p, "PostItem_Incr")
    /\ UNCHANGED <<store, resp, locals, nreq, issued, deleted>>

IncrNone(n) == n
\* th.lastID++
Incr(n) == n + 1

PostItem_Incr(p) ==
    /\ pc[p] = "PostItem_Incr"
    /\ lastID' = Incr(lastID)
    /\ Goto(p, "PostItem_Insert")
    /\ UNCHANGED <<items, rwmutex, resp, locals, nreq, issued, deleted, pre>>

NewItemKeepsFlag(i, b) == TodoItem(i, b.Name, TRUE)
\* TodoItem{Id: th.lastID, Name: item.Name, IsComplete: false}
NewItem(i, b) == TodoItem(i, b.Name, FALSE)

PostItem_Insert(p) ==
    /\ pc[p] = "PostItem_Insert"
    /\ items' = MapSet(items, lastID, NewItem(lastID, bound[p]))
    /\ issued' = Append(issued, lastID)
    /\ Goto(p, "PostItem_Unlock")
    /\ UNCHANGED <<lastID, rwmutex, resp, locals, nreq, deleted, pre>>

PostItem_Unlock(p) ==
    /\ pc[p] = "PostItem_Unlock"
    /\ Unlock(p)
    /\ Return(p, resp[p])
    /\ UNCHANGED <<store, nreq, issued, deleted, pre>>

\* ------------------------------------------------------------------ PutItem
PutItem_Bind(p) ==
    /\ pc[p] = "PutItem_Bind"
    /\ LET b == BindPut(req[p].body)
       IN  IF b.err
           THEN /\ Return(p, String(StatusBadRequest))
           ELSE /\ bound' = [bound EXCEPT ![p] = b.val]
                /\ Goto(p, "PutItem_Atoi")
                /\ UNCHANGED <<resp, id, item>>
    /\ UNCHANGED <<store, rwmutex, nreq, issued, deleted, pre>>

PutItem_Atoi(p) ==
    /\ pc[p] = "PutItem_Atoi"
    /\ LET a == Atoi(req[p].param)
       IN  IF a.err
           THEN /\ Return(p, String(StatusBadRequest))
           ELSE /\ id' = [id EXCEPT ![p] = a.val]
                /\ Goto(p, "PutItem_Lock")
                /\ UNCHANGED <<resp, item, bound>>
    /\ UNCHANGED <<store, rwmutex, nreq, issued, deleted, pre>>

\* th.Lock(); defer th.Unlock()
PutItem_Lock(p) ==
    /\ pc[p] = "PutItem_Lock"
    /\ Lock(p)
    /\ Goto(p, "PutItem_Lookup")
    /\ UNCHANGED <<store, resp, locals, nreq, issued, deleted>>

PutItem_OkAlways(its, i) == TRUE
\* item, ok := th.items[id] in PutItem
PutItem_Ok(its, i) == i \in DOMAIN its

PutItem_NotFoundAs400(i) == String(StatusBadRequest)
\* c.String(http.StatusNotFound, `Not found: Item with id "%v"`, id) in PutItem
PutItem_NotFound(i) == String(StatusNotFound)

\* Not found: write 404 and return, which runs the deferred Unlock.
PutItem_Lookup(p) ==
    /\ pc[p] = "PutItem_Lookup"
    /\ IF ~PutItem_Ok(items, id[p])
       THEN /\ resp' = [resp EXCEPT ![p] = PutItem_NotFound(id[p])]
            /\ Goto(p, "PutItem_Unlock")
            /\ UNCHANGED item
       ELSE /\ item' = [item EXCEPT ![p] = items[id[p]]]
            /\ Goto(p, "PutItem_Assign")
            /\ UNCHANGED resp
    /\ UNCHANGED <<store, rwmutex, id, bound, nreq, issued, deleted, pre>>

\* item.Name, item.IsComplete, th.items[id] = putItem.Name, putItem.IsComplete, item
\* A Go tuple assignment evaluates every right-hand operand first and assigns
\* afterwards, left to right: the third operand is item as it was before the
\* first two assignments changed the local.
TupleAssignNoId(it, put) ==
    [item |-> [it EXCEPT !.Name = put.Name, !.IsComplete = put.IsComplete],
     stored |-> TodoItem(0, put.Name, put.IsComplete)]
TupleAssign(it, put) ==
    [item |-> [it EXCEPT !.Name = put.Name, !.IsComplete = put.IsComplete],
     stored |-> it]

PutItem_StoreNext(its, i, v) == MapSet(its, i + 1, v)
\* th.items[id] = <third operand>
PutItem_Store(its, i, v) == MapSet(its, i, v)

PutItem_Assign(p) ==
    /\ pc[p] = "PutItem_Assign"
    /\ LET t == TupleAssign(item[p], bound[p])
       IN  /\ item' = [item EXCEPT ![p] = t.item]
           /\ items' = PutItem_Store(items, id[p], t.stored)
    /\ Goto(p, "PutItem_Unlock")
    /\ UNCHANGED <<lastID, rwmutex, resp, id, bound, nreq, issued, deleted, pre>>

\* The deferred th.Unlock(), on both paths.
PutItem_Unlock(p) ==
    /\ pc[p] = "PutItem_Unlock"
    /\ Unlock(p)
    /\ Return(p, resp[p])
    /\ UNCHANGED <<store, nreq, issued, deleted, pre>>

\* ------------------------------------------------------------------ DeleteItem
DeleteItem_Atoi(p) ==
    /\ pc[p] = "DeleteItem_Atoi"
    /\ LET a == Atoi(req[p].param)
       IN  IF a.err
           THEN /\ Return(p, String(StatusBadRequest))
           ELSE /\ id' = [id EXCEPT ![p] = a.val]
                /\ Goto(p, "DeleteItem_Lock")
                /\ UNCHANGED <<resp, item, bound>>
    /\ UNCHANGED <<store, rwmutex, nreq, issued, deleted, pre>>

DeleteItem_Lock(p) ==
    /\ pc[p] = "DeleteItem_Lock"
    /\ Lock(p)
    /\ Goto(p, "DeleteItem_Lookup")
    /\ UNCHANGED <<store, resp, locals, nreq, issued, deleted>>

DeleteItem_OkAlways(its, i) == TRUE
\* _, ok := th.items[id] in DeleteItem
DeleteItem_Ok(its, i) == i \in DOMAIN its

\* Not found: write 404 and return.  No Unlock is on this path: the handler
\* returns with the write lock still taken.
DeleteItem_Lookup(p) ==
    /\ pc[p] = "DeleteItem_Lookup"
    /\ IF ~DeleteItem_Ok(items, id[p])
       THEN /\ Return(p, String(StatusNotFound))
       ELSE /\ Goto(p, "DeleteItem_Delete")
            /\ UNCHANGED <<resp, locals>>
    /\ UNCHANGED <<store, rwmutex, nreq, issued, deleted, pre>>

DeleteNone(its, i) == its
\* delete(th.items, id)
Delete(its, i) == [k \in DOMAIN its \ {i} |-> its[k]]

DeleteItem_Delete(p) ==
    /\ pc[p] = "DeleteItem_Delete"
    /\ items' = Delete(items, id[p])
    /\ deleted' = deleted \cup {id[p]}
    /\ Goto(p, "DeleteItem_Unlock")
    /\ UNCHANGED <<lastID, rwmutex, resp, locals, nreq, issued, pre>>

DeleteItem_Unlock(p) ==
    /\ pc[p] = "DeleteItem_Unlock"
    /\ Unlock(p)
    /\ Return(p, resp[p])
    /\ UNCHANGED <<store, nreq, issued, deleted, pre>>

\* ------------------------------------------------------------------ specifications
\* One step of the handler goroutine p is running.
Handle(p) ==
    \/ GetItems_RLock(p) \/ GetItems_Body(p) \/ GetItems_RUnlock(p)
    \/ GetItemByID_Atoi(p) \/ GetItemByID_RLock(p) \/ GetItemByID_Lookup(p)
    \/ GetItemByID_RUnlock(p)
    \/ PostItem_Bind(p) \/ PostItem_Lock(p) \/ PostItem_Incr(p)
    \/ PostItem_Insert(p) \/ PostItem_Unlock(p)
    \/ PutItem_Bind(p) \/ PutItem_Atoi(p) \/ PutItem_Lock(p) \/ PutItem_Lookup(p)
    \/ PutItem_Assign(p) \/ PutItem_Unlock(p)
    \/ DeleteItem_Atoi(p) \/ DeleteItem_Lock(p) \/ DeleteItem_Lookup(p)
    \/ DeleteItem_Delete(p) \/ DeleteItem_Unlock(p)

\* Requests served concurrently by NumProcs goroutines.
Next == \E p \in Procs : Receive(p, MaxReqs, ConcRequests) \/ Handle(p)
Spec == Init /\ [][Next]_vars

\* Requests served one after the other by a single goroutine.
SeqNext == Receive(1, SeqMaxReqs, Requests) \/ Handle(1)
SeqSpec == Init /\ [][SeqNext]_vars

\* A goroutine that can run does run, and a goroutine waiting for the mutex gets
\* it if the mutex is free again and again (sync.RWMutex starves nobody).
FairSpec == Spec /\ \A p \in Procs : SF_vars(Handle(p))

\* ------------------------------------------------------------------ properties
Range(f) == {f[x] : x \in DOMAIN f}
\* Goroutine p takes a step of its handler (or accepts a request) in this transition.
Moves(p) == pc'[p] # pc[p]
\* Goroutine p returns from its handler in this transition.
Returns(p) == pc[p] # "idle" /\ pc'[p] = "idle"

\* C1: when Update(id, name, isComplete) returns successfully, GetById(id) answers
\* exactly the item {id, name, isComplete} with the values passed to Update.
C1_UpdateOverwrite ==
    [][\A p \in Procs :
        (pc[p] = "PutItem_Unlock" /\ Returns(p) /\ resp'[p].status = StatusOK) =>
            GetItemByID_Response(items', id[p])
                = JSON(StatusOK, <<TodoItem(id[p], req[p].body.Name, req[p].body.IsComplete)>>)
      ]_vars

\* C2: under fair scheduling every request that was accepted is eventually answered
\* (its handler returns), whatever was served before it.
C2_EveryRequestReturns ==
    \A p \in Procs : (pc[p] # "idle") ~> (pc[p] = "idle")

\* C3: the ids assigned by successive successful Creates are strictly increasing,
\* so none is assigned twice, also when Deletes came between the Creates.
C3_IdsStrictlyIncreasing ==
    \A i, j \in 1..Len(issued) : i < j => issued[i] < issued[j]

\* Ids 1 and 2 were created, 1 was deleted, and the next Create has just inserted 3.
C3_Witness ==
    \E p \in Procs :
        /\ pc[p] = "PostItem_Unlock"
        /\ issued = <<1, 2, 3>>
        /\ 1 \notin DOMAIN pre.items
        /\ 2 \in DOMAIN pre.items

NeverCreated(i) == i \notin Range(issued)
AlreadyDeleted(i) == i \in Range(issued) /\ i \in deleted
LookupPCs == {"GetItemByID_Lookup", "PutItem_Lookup", "DeleteItem_Lookup"}

\* C4: GetById, Update and Delete answer NotFound in the same cases, exactly when
\* the id was never created or has already been deleted, NotFound is decided
\* nowhere else, and the handler that answers it leaves items and lastID as they were.
C4_NotFoundSymmetry ==
    [][\A p \in Procs :
        LET looks == pc[p] \in LookupPCs /\ Moves(p)
            notFound == resp'[p].status = StatusNotFound
        IN  /\ looks => (notFound <=> (NeverCreated(id[p]) \/ AlreadyDeleted(id[p])))
            /\ (notFound /\ resp[p].status # StatusNotFound) => looks
            /\ (notFound /\ Moves(p)) => (items' = items /\ lastID' = lastID)
            /\ (notFound /\ Returns(p) /\ pc[p] = "PutItem_Unlock") =>
                    (items' = pre.items /\ lastID' = pre.lastID)
      ]_vars

\* Update has answered NotFound for an id that was created and then deleted.
C4_Witness ==
    \E p \in Procs :
        /\ pc[p] = "PutItem_Unlock"
        /\ resp[p].status = StatusNotFound
        /\ AlreadyDeleted(id[p])

C6_DeleteRemovesExactlyOne ==
    [][\A p \in Procs :
        (pc[p] = "DeleteItem_Unlock" /\ Returns(p)) =>
            /\ id[p] \in DOMAIN pre.items
            /\ GetItemByID_Response(items', id[p]) = String(StatusNotFound)
            /\ \A ks \in RangeOrders(items') :
                \A i \in DOMAIN ks : Sort(Collect(items', ks))[i].Id # id[p]
            /\ DOMAIN items' = DOMAIN pre.items \ {id[p]}
            /\ \A k \in DOMAIN items' : items'[k] = pre.items[k]
            /\ lastID' = pre.lastID
      ]_vars

\* A Delete is about to return having removed one of two items.
C6_Witness ==
    \E p \in Procs :
        /\ pc[p] = "DeleteItem_Unlock"
        /\ Cardinality(DOMAIN pre.items) = 2
        /\ Cardinality(DOMAIN items) = 1

\* C7: a Create with a parsable body is not rejected, and when it returns lastID is
\* one more than when it took the lock, the item {lastID, name, false} has been
\* inserted under the new id, and the items that existed are unchanged; the first
\* Create of a fresh store assigns id 1.
C7_CreateEffect ==
    [][\A p \in Procs :
        /\ (pc[p] = "PostItem_Bind" /\ Moves(p) /\ req[p].body.valid) =>
                pc'[p] = "PostItem_Lock"
        /\ (pc[p] = "PostItem_Unlock" /\ Returns(p)) =>
                LET new == pre.lastID + 1
                IN  /\ resp'[p].status = StatusOK
                    /\ lastID' = new
                    /\ new \notin DOMAIN pre.items
                    /\ DOMAIN items' = DOMAIN pre.items \cup {new}
                    /\ items'[new] = TodoItem(new, req[p].body.Name, FALSE)
                    /\ \A k \in DOMAIN pre.items : items'[k] = pre.items[k]
                    /\ (pre.lastID = 0 => new = 1 /\ issued' = <<1>>)
      ]_vars

\* A Create is about to return whose name an existing item already carries.
C7_Witness ==
    \E p \in Procs :
        /\ pc[p] = "PostItem_Unlock"
        /\ \E k \in DOMAIN pre.items : pre.items[k].Name = req[p].body.Name

\* C8: in every interleaving of concurrent Creates each one gets an id of its own:
\* the ids inserted are pairwise different, none of the inserts is lost, and lastID
\* has advanced by exactly the number of Creates that have incremented it.
C8_ConcurrentCreatesDistinct ==
    /\ \A i, j \in 1..Len(issued) : i # j => issued[i] # issued[j]
    /\ DOMAIN items = Range(issued) \ deleted
    /\ \A k \in DOMAIN items : items[k].Id = k
    /\ lastID = Len(issued) + Cardinality({p \in Procs : pc[p] = "PostItem_Insert"})

\* Two Creates have inserted ids 1 and 2 while another Create waits for the lock.
C8_Witness ==
    \E p, q \in Procs :
        /\ pc[p] = "PostItem_Unlock"
        /\ pc[q] = "PostItem_Lock"
        /\ issued = <<1, 2>>
        /\ DOMAIN items = {1, 2}

\* C9: when Update of an existing id returns, every item under another id is as it
\* was, the store has the same keys, and lastID is unchanged.
C9_UpdateFrame ==
    [][\A p \in Procs :
        (pc[p] = "PutItem_Unlock" /\ Returns(p) /\ resp'[p].status = StatusOK) =>
            /\ id[p] \in DOMAIN pre.items
            /\ DOMAIN items' = DOMAIN pre.items
            /\ \A k \in DOMAIN pre.items \ {id[p]} : items'[k] = pre.items[k]
            /\ items'[id[p]].Id = id[p]
            /\ lastID' = pre.lastID
      ]_vars

\* An Update of one of two items is about to return successfully.
C9_Witness ==
    \E p \in Procs :
        /\ pc[p] = "PutItem_Unlock"
        /\ resp[p].status = 0
        /\ Cardinality(DOMAIN items) = 2

\* A path id that is an optional sign followed by decimal digits.
IntParsable(s) ==
    LET ds == IF s # <<>> /\ Head(s) \in {"+", "-"} THEN Tail(s) ELSE s
    IN  ds # <<>> /\ \A i \in 1..Len(ds) : ds[i] \in Range(Digits)

\* Request r carries a path id that is no integer or a body that does not parse.
Malformed(r) ==
    \/ r.op \in {"GetItemByID", "PutItem", "DeleteItem"} /\ ~IntParsable(r.param)
    \/ r.op \in {"PostItem", "PutItem"} /\ ~r.body.valid

ValidationPCs ==
    {"GetItemByID_Atoi", "PostItem_Bind", "PutItem_Bind", "PutItem_Atoi", "DeleteItem_Atoi"}

\* C10: a request with a non-integer path id or an unparsable body is answered 400 by
\* the validation steps of its handler, and no step of that handler changes items
\* or lastID.
C10_InvalidArgument ==
    [][\A p \in Procs :
        (pc[p] # "idle" /\ Moves(p) /\ Malformed(req[p])) =>
            /\ pc[p] \in ValidationPCs
            /\ pc'[p] \in ValidationPCs \cup {"idle"}
            /\ Returns(p) => resp'[p] = String(StatusBadRequest)
            /\ items' = items
            /\ lastID' = lastID
      ]_vars

\* A request has been answered 400 while the store holds an item.
C10_Witness ==
    \E p \in Procs :
        /\ pc[p] = "idle"
        /\ resp[p] = String(StatusBadRequest)
        /\ DOMAIN items # {}
        /\ lastID = Cardinality(DOMAIN items)

GetItemsPCs == {"GetItems_RLock", "GetItems_Body", "GetItems_RUnlock"}

\* C11: two List() calls with no Create, Update or Delete taking effect between them
\* (both hold the read lock at once, which keeps every writer out) answer the same
\* sequence, and no step of List() changes items or lastID.
C11_ListIdempotent ==
    [][/\ \A p, q \in Procs :
            (pc'[p] = "GetItems_RUnlock" /\ pc'[q] = "GetItems_RUnlock") =>
                resp'[p] = resp'[q]
       /\ \A p \in Procs :
            (pc[p] \in GetItemsPCs /\ Moves(p)) => (items' = items /\ lastID' = lastID)
      ]_vars

\* Two List() calls hold the read lock together and have both answered two items.
C11_Witness ==
    \E p, q \in Procs :
        /\ p # q
        /\ pc[p] = "GetItems_RUnlock"
        /\ pc[q] = "GetItems_RUnlock"
        /\ Len(resp[p].items) = 2

\* The positions at which a handler is between its th.Lock() and its th.Unlock().
WriteSectionPCs ==
    {"PostItem_Incr", "PostItem_Insert", "PostItem_Unlock",
     "PutItem_Lookup", "PutItem_Assign", "PutItem_Unlock",
     "DeleteItem_Lookup", "DeleteItem_Delete", "DeleteItem_Unlock"}

\* C12: a mutating handler has released the write lock by the time it returns, on
\* every exit path: the write lock is never held by a handler that has returned.
C12_LockReleasedOnReturn ==
    \A p \in Procs : writer = p => pc[p] \in WriteSectionPCs

\* The positions at which a handler is between its th.RLock() and its th.RUnlock().
ReadSectionPCs ==
    {"GetItems_Body", "GetItems_RUnlock", "GetItemByID_Lookup", "GetItemByID_RUnlock"}

\* The handler goroutine p runs is between taking and releasing the mutex.
HoldsLock(p) ==
    \/ pc[p] \in WriteSectionPCs /\ writer = p
    \/ pc[p] \in ReadSectionPCs /\ p \in readers

\* The handler of p writes a body (c.JSON or c.String) in this transition.
WritesBody(p) ==
    /\ pc[p] # "idle"
    /\ resp'[p] # resp[p]
    /\ resp'[p].kind \in {"json", "text"}

ReadAccessPCs ==
    {"GetItems_Body", "GetItemByID_Lookup", "PutItem_Lookup", "DeleteItem_Lookup"}
WriteAccessPCs ==
    {"PostItem_Incr", "PostItem_Insert", "PutItem_Assign", "DeleteItem_Delete"}

\* C14: a handler that is about to read items or lastID holds the shared or the
\* exclusive lock, one that is about to write them holds the exclusive lock; at most
\* one handler is between Lock and Unlock, and while the exclusive lock is taken no
\* handler is between RLock and RUnlock.
C14_LockDiscipline ==
    /\ \A p \in Procs : pc[p] \in ReadAccessPCs => HoldsLock(p)
    /\ \A p \in Procs : pc[p] \in WriteAccessPCs => (HoldsLock(p) /\ writer = p)
    /\ Cardinality({p \in Procs : pc[p] \in WriteSectionPCs}) <= 1
    /\ \A p \in Procs : pc[p] \in WriteSectionPCs => writer = p
    /\ \A p \in Procs : pc[p] \in ReadSectionPCs => p \in readers
    /\ writer # 0 => readers = {}
    /\ readers # {} => writer = 0

\* Two handlers (List or GetById) hold the shared lock at the same time.
C14_Witness ==
    \E p, q \in Procs :
        /\ p # q
        /\ pc[p] \in ReadSectionPCs
        /\ pc[q] \in ReadSectionPCs
        /\ {p, q} \subseteq readers

\* ------------------------------------------------------------------ sequential runs
\* What each mutating handler does to the store st = [items, lastID], and what it
\* answers, when it runs from th.Lock() to its return with no other handler in
\* between: the statements of its critical section, composed.
SeqPostItem(st, body) ==
    LET n == Incr(st.lastID)
    IN  [items |-> MapSet(st.items, n, NewItem(n, BindPost(body).val)),
         lastID |-> n,
         resp |-> Finish(NoResponse)]

SeqPutItem(st, i, body) ==
    IF ~PutItem_Ok(st.items, i)
    THEN [items |-> st.items, lastID |-> st.lastID, resp |-> PutItem_NotFound(i)]
    ELSE [items |-> PutItem_Store(st.items, i, TupleAssign(st.items[i], BindPut(body).val).stored),
          lastID |-> st.lastID,
          resp |-> Finish(NoResponse)]

SeqDeleteItem(st, i) ==
    IF ~DeleteItem_Ok(st.items, i)
    THEN [items |-> st.items, lastID |-> st.lastID, resp |-> String(StatusNotFound)]
    ELSE [items |-> Delete(st.items, i), lastID |-> st.lastID, resp |-> Finish(NoResponse)]

\* The sequential run of the handler that serves request r with parsed id i.
SeqRun(st, r, i) ==
    CASE r.op = "PostItem" -> SeqPostItem(st, r.body)
      [] r.op = "PutItem" -> SeqPutItem(st, i, r.body)
      [] r.op = "DeleteItem" -> SeqDeleteItem(st, i)

\* C15: every operation is atomic with respect to the others.  The store changes
\* only by steps of the one handler inside a write section; a handler that leaves its
\* write section leaves the store and its answer exactly as its sequential run from
\* the store it found at Lock() would; a read answers from the store as it is, with
\* no handler inside a write section; and
\* between the existence check and the write of Update, and the check and the removal
\* of Delete, the entry checked is still there, so that the write of Update never
\* adds a key.
C15_Atomic ==
    [][\A p \in Procs :
        /\ (Moves(p) /\ (items' # items \/ lastID' # lastID)) =>
                (writer = p /\ pc[p] \in WriteAccessPCs)
        /\ (pc[p] \in WriteSectionPCs /\ Returns(p)) =>
                LET s == SeqRun(pre, req[p], id[p])
                IN  /\ items' = s.items
                    /\ lastID' = s.lastID
                    /\ resp'[p] = s.resp
        /\ (pc[p] \in {"GetItems_Body", "GetItemByID_Lookup"} /\ Moves(p)) =>
                \A q \in Procs : pc[q] \notin WriteSectionPCs
        /\ (pc[p] = "GetItemByID_Lookup" /\ Moves(p)) =>
                resp'[p] = GetItemByID_Response(items', id[p])
        /\ pc'[p] = "PutItem_Assign" =>
                (id'[p] \in DOMAIN items' /\ item'[p] = items'[id'[p]])
        /\ pc'[p] = "DeleteItem_Delete" => id'[p] \in DOMAIN items'
        /\ (pc[p] = "PutItem_Assign" /\ Moves(p)) => DOMAIN items' = DOMAIN items
      ]_vars

\* An Update is between its existence check and its write while a Delete of the
\* same id waits for the lock.
C15_Witness ==
    \E p, q \in Procs :
        /\ pc[p] = "PutItem_Assign"
        /\ pc[q] = "DeleteItem_Lock"
        /\ id[p] = id[q]

\* C16: every item in the store carries the key it is stored under as its Id, and
\* the Id of an item that stays in the store never changes, whatever Updates do.
C16_IdEqualsKey ==
    [][/\ \A k \in DOMAIN items' : items'[k].Id = k
       /\ \A k \in DOMAIN items \cap DOMAIN items' : items'[k].Id = items[k].Id
      ]_vars

\* An Update has just written its entry back.
C16_Witness ==
    \E p \in Procs :
        /\ pc[p] = "PutItem_Unlock"
        /\ resp[p].status = 0
        /\ id[p] \in DOMAIN items
        /\ item[p] # ZeroItem

\* C17: starting from NewTodoHandler(0), lastID + 1 is greater than every id issued
\* so far, deleted ones included, every key of the map lies in 1..lastID, and only
\* the increment of a Create changes lastID, by one.
C17_CounterAboveIssuedIds ==
    [][/\ \A i \in 1..Len(issued') : issued'[i] < lastID' + 1
       /\ \A k \in deleted' : k < lastID' + 1
       /\ DOMAIN items' \subseteq 1..lastID'
       /\ lastID' # lastID =>
            /\ lastID' = lastID + 1
            /\ \E p \in Procs : pc[p] = "PostItem_Incr" /\ pc'[p] = "PostItem_Insert"
      ]_vars

\* Two ids were issued and one of them deleted; the counter stays at 2.
C17_Witness ==
    /\ lastID = 2
    /\ issued = <<1, 2>>
    /\ deleted # {}
    /\ \A p \in Procs : pc[p] = "idle"

\* The validation step of the handler p runs.
Validate(p) ==
    \/ GetItemByID_Atoi(p) \/ PostItem_Bind(p) \/ PutItem_Bind(p)
    \/ PutItem_Atoi(p) \/ DeleteItem_Atoi(p)

\* C18: validation comes before locking.  A handler writes 400 only at a validation
\* step, which touches no lock, and a malformed request never takes or releases the
\* mutex; its validation steps can be taken also while the mutex is held; and
\* Update answers 400 for an unparsable body whatever its path id is.
C18_ValidationBeforeLock ==
    [][\A p \in Procs :
        /\ (resp'[p].status = StatusBadRequest /\ resp[p].status # StatusBadRequest) =>
                (pc[p] \in ValidationPCs /\ writer' = writer /\ readers' = readers)
        /\ (pc[p] # "idle" /\ Moves(p) /\ Malformed(req[p])) =>
                /\ writer' = writer
                /\ readers' = readers
                /\ ~HoldsLock(p)
                /\ pc'[p] \notin WriteSectionPCs \cup ReadSectionPCs
        /\ (pc[p] \in ValidationPCs /\ (writer # 0 \/ readers # {})) =>
                ENABLED Validate(p)
        /\ (pc[p] = "PutItem_Bind" /\ Moves(p) /\ ~req[p].body.valid) =>
                (Returns(p) /\ resp'[p] = String(StatusBadRequest))
      ]_vars

\* A request has been answered 400 while another handler is inside its write section.
C18_Witness ==
    \E p, q \in Procs :
        /\ pc[p] = "idle"
        /\ resp[p] = String(StatusBadRequest)
        /\ writer = q
        /\ pc[q] \in WriteSectionPCs

====
